---- MODULE Spec2Model ----
(***************************************************************************)
(* Model of Dependencies/content/src/API.cpp: the SoundFileHandle class    *)
(* (fallible constructor, destructor, accessors) and the exported C API    *)
(* (soundOpenFile, soundCloseFile and the getters).                        *)
(*                                                                         *)
(* The three decoder libraries (dr_wav, dr_flac, stb_vorbis) are external  *)
(* collaborators: each open call either succeeds, producing a fresh native *)
(* object carrying header metadata, or fails.                              *)
(***************************************************************************)
EXTENDS Integers, Sequences, FiniteSets, TLC

----------------------------------------------------------------------------
(* Bounds and enumerations *)

\* number of soundOpenFile calls explored
MaxOpens == 2

\* enum class SoundError : int32_t
NO_ERROR == 0
FILE_NOT_FOUND == 1
UNKNOWN_TYPE == 2
INVALID_FILE == 3

\* enum SoundFileHandle::FileType : int32_t
TYPE_UNKNOWN == 0
TYPE_WAV == 1
TYPE_FLAC == 2
TYPE_VORBIS == 3

Backends == {TYPE_WAV, TYPE_FLAC, TYPE_VORBIS}

\* the null pointer; every other pointer value is a positive integer
nullptr == 0

\* std::string::npos, the "not found" position (positions are 0-based)
npos == -1

\* paths handed to soundOpenFile, as sequences of characters
Path_a_wav == <<"a", ".", "w", "a", "v">>
Path_a_flac == <<"a", ".", "f", "l", "a", "c">>
Path_s_ogg == <<"s", ".", "o", "g", "g">>
Path_a_b_ogg == <<"a", ".", "b", ".", "o", "g", "g">>
Path_a_WAV == <<"a", ".", "W", "A", "V">>
Path_a_txt == <<"a", ".", "t", "x", "t">>
Path_a == <<"a">>
Path_wav == <<"w", "a", "v">>
Path_a_wav_txt == <<"a", ".", "w", "a", "v", ".", "t", "x", "t">>
Path_a_ogg_b == <<"a", ".", "o", "g", "g", "/", "b">>
Path_a_flacx == <<"a", ".", "f", "l", "a", "c", "x">>
Path_a_dot == <<"a", ".">>

Paths ==
  { Path_a_wav, Path_a_flac, Path_s_ogg, Path_a_b_ogg, Path_a_WAV, Path_a_txt,
    Path_a, Path_wav, Path_a_wav_txt, Path_a_ogg_b, Path_a_flacx, Path_a_dot }

\* header metadata a decoder reports after a successful open:
\* count is totalPCMFrameCount (dr_wav, dr_flac) or the value of
\* stb_vorbis_stream_length_in_samples (stb_vorbis); a decoder that
\* accepted a file reports at least one channel and a rate of at least 1
NativeInfo ==
  { [count |-> 88200, sampleRate |-> 44100, channels |-> 2],
    [count |-> 5, sampleRate |-> 44100, channels |-> 2],
    [count |-> 5, sampleRate |-> 44100, channels |-> 1],
    [count |-> 0, sampleRate |-> 1, channels |-> 1] }

NoNative == [count |-> 0, sampleRate |-> 0, channels |-> 0]

\* what the outside world answers to one open attempt:
\*   is_open    - std::ifstream could open the path
\*   backendOk  - the decoder selected for the path accepts the file
\*   native     - the metadata that decoder then reports
Env ==
  { [is_open |-> FALSE, backendOk |-> FALSE, native |-> NoNative],
    [is_open |-> TRUE, backendOk |-> FALSE, native |-> NoNative] }
  \cup
  { [is_open |-> TRUE, backendOk |-> TRUE, native |-> n] : n \in NativeInfo }

----------------------------------------------------------------------------
(* Pure helpers of the constructor *)

\* std::string::find_first_of(c): first position holding c, or npos
find_first_of(s, c) ==
  IF \E i \in 1..Len(s) : s[i] = c
    THEN (CHOOSE i \in 1..Len(s) :
            s[i] = c /\ \A j \in 1..Len(s) : s[j] = c => i <= j) - 1
    ELSE npos

\* std::string::find_last_of(c): last position holding c, or npos
find_last_of(s, c) ==
  IF \E i \in 1..Len(s) : s[i] = c
    THEN (CHOOSE i \in 1..Len(s) :
            s[i] = c /\ \A j \in 1..Len(s) : s[j] = c => j <= i) - 1
    ELSE npos

\* std::string::substr(pos): the text from position pos to the end
substr(s, pos) == SubSeq(s, pos + 1, Len(s))

\* ASCII lower-casing (used only by a faulty variant of the detection)
ToLower(ch) ==
  CASE ch = "W" -> "w"
    [] ch = "A" -> "a"
    [] ch = "V" -> "v"
    [] OTHER -> ch

LowerCase(s) == [i \in 1..Len(s) |-> ToLower(s[i])]

ExtToType(ext) ==
  IF ext = <<".", "w", "a", "v">> THEN TYPE_WAV
  ELSE IF ext = <<".", "f", "l", "a", "c">> THEN TYPE_FLAC
  ELSE IF ext = <<".", "o", "g", "g">> THEN TYPE_VORBIS
  ELSE TYPE_UNKNOWN

\* faulty variant: the extension is compared ignoring letter case
DetectType_IgnoreCase(file) ==
  LET extPos == find_last_of(file, ".")
  IN  IF extPos = npos THEN TYPE_UNKNOWN
      ELSE ExtToType(LowerCase(substr(file, extPos)))

\* "Detect the file type": the value type_ has when detection is over
DetectType(file) ==
  LET extPos == find_last_of(file, ".")
  IN  IF extPos = npos THEN TYPE_UNKNOWN
      ELSE ExtToType(substr(file, extPos))

\* faulty variant: info_ is left out of the member initializer list
ZeroInfo_Uninit == [totalFrames |-> 1, sampleRate |-> 1, channels |-> 1]

\* info_{ } : value-initialized SoundFileInfo
ZeroInfo == [totalFrames |-> 0, sampleRate |-> 0, channels |-> 0]

\* faulty variant: the Vorbis sample count is copied without the division
LoadInfo_NoDivision(type, native) ==
  [totalFrames |-> native.count,
   sampleRate |-> native.sampleRate,
   channels |-> native.channels]

\* faulty variant: the channel count is not copied
LoadInfo_NoChannels(type, native) ==
  [totalFrames |-> IF type = TYPE_VORBIS
                     THEN native.count \div native.channels
                     ELSE native.count,
   sampleRate |-> native.sampleRate,
   channels |-> 0]

\* "Load file information"
LoadInfo(type, native) ==
  IF type = TYPE_WAV THEN
    [totalFrames |-> native.count,
     sampleRate |-> native.sampleRate,
     channels |-> native.channels]
  ELSE IF type = TYPE_FLAC THEN
    [totalFrames |-> native.count,
     sampleRate |-> native.sampleRate,
     channels |-> native.channels]
  ELSE
    [totalFrames |-> native.count \div native.channels,
     sampleRate |-> native.sampleRate,
     channels |-> native.channels]

----------------------------------------------------------------------------
(* The constructor.  An object is a record of the five data members;      *)
(* handle_ is the single pointer shared by the three arms of the union.   *)
(* The result also reports what the constructor did to the decoders:      *)
(*   called  - the decoder whose open routine ran (TYPE_UNKNOWN: none)     *)
(*   opened  - that routine succeeded and a native object is now live      *)
(*   news, deletes - "new drwav" / "delete handle_.wav" executed           *)

\* member initializer list
InitialObj(file) ==
  [type_ |-> TYPE_UNKNOWN,
   fileName_ |-> file,
   handle_ |-> nullptr,
   info_ |-> ZeroInfo,
   lastError_ |-> NO_ERROR]

NoCtorEffect(obj) ==
  [obj |-> obj, called |-> TYPE_UNKNOWN, opened |-> FALSE,
   news |-> 0, deletes |-> 0]

\* faulty variant: a rejected WAV keeps its drwav object and pointer
OpenBackend_KeepWav(obj, backendOk, ptr) ==
  IF obj.type_ = TYPE_WAV THEN
    IF backendOk
      THEN [obj |-> [obj EXCEPT !.handle_ = ptr],
            called |-> TYPE_WAV, opened |-> TRUE, news |-> 1, deletes |-> 0]
      ELSE [obj |-> [obj EXCEPT !.handle_ = ptr, !.lastError_ = INVALID_FILE],
            called |-> TYPE_WAV, opened |-> FALSE, news |-> 1, deletes |-> 0]
  ELSE
    IF backendOk
      THEN [obj |-> [obj EXCEPT !.handle_ = ptr],
            called |-> obj.type_, opened |-> TRUE, news |-> 0, deletes |-> 0]
      ELSE [obj |-> [obj EXCEPT !.handle_ = nullptr,
                                !.lastError_ = INVALID_FILE],
            called |-> obj.type_, opened |-> FALSE, news |-> 0, deletes |-> 0]

\* "Initialize the file": obj.type_ is one of the three known types
OpenBackend(obj, backendOk, ptr) ==
  IF obj.type_ = TYPE_WAV THEN
    \* handle_.wav = new drwav; drwav_init_file(...)
    IF backendOk
      THEN [obj |-> [obj EXCEPT !.handle_ = ptr],
            called |-> TYPE_WAV, opened |-> TRUE, news |-> 1, deletes |-> 0]
      ELSE [obj |-> [obj EXCEPT !.handle_ = nullptr,
                                !.lastError_ = INVALID_FILE],
            called |-> TYPE_WAV, opened |-> FALSE, news |-> 1, deletes |-> 1]
  ELSE IF obj.type_ = TYPE_FLAC THEN
    \* handle_.flac = drflac_open_file(...)
    IF backendOk
      THEN [obj |-> [obj EXCEPT !.handle_ = ptr],
            called |-> TYPE_FLAC, opened |-> TRUE, news |-> 0, deletes |-> 0]
      ELSE [obj |-> [obj EXCEPT !.handle_ = nullptr,
                                !.lastError_ = INVALID_FILE],
            called |-> TYPE_FLAC, opened |-> FALSE, news |-> 0, deletes |-> 0]
  ELSE
    \* handle_.vorbis = stb_vorbis_open_filename(...)
    IF backendOk
      THEN [obj |-> [obj EXCEPT !.handle_ = ptr],
            called |-> TYPE_VORBIS, opened |-> TRUE, news |-> 0, deletes |-> 0]
      ELSE [obj |-> [obj EXCEPT !.handle_ = nullptr,
                                !.lastError_ = INVALID_FILE],
            called |-> TYPE_VORBIS, opened |-> FALSE, news |-> 0, deletes |-> 0]

\* the constructor from "Detect the file type" to its end
DetectAndOpen(file, e, ptr) ==
  LET type == DetectType(file)
      typed == [InitialObj(file) EXCEPT !.type_ = type]
  IN  IF type = TYPE_UNKNOWN THEN
        NoCtorEffect([typed EXCEPT !.lastError_ = UNKNOWN_TYPE])
      ELSE
        LET r == OpenBackend(typed, e.backendOk, ptr)
        IN  IF r.obj.lastError_ = INVALID_FILE THEN r
            ELSE [r EXCEPT !.obj.info_ = LoadInfo(type, e.native),
                           !.obj.lastError_ = NO_ERROR]

\* faulty variant: no return after FILE_NOT_FOUND is recorded
Construct_NoReturn(file, e, ptr) ==
  DetectAndOpen(file, e, ptr)

\* SoundFileHandle::SoundFileHandle(file)
Construct(file, e, ptr) ==
  IF ~e.is_open
    THEN NoCtorEffect([InitialObj(file) EXCEPT !.lastError_ = FILE_NOT_FOUND])
    ELSE DetectAndOpen(file, e, ptr)

\* faulty variant: the Vorbis arm of the destructor is missing
Destroy_NoVorbis(obj) ==
  IF obj.type_ = TYPE_WAV /\ obj.handle_ # nullptr THEN
    [closed |-> TYPE_WAV, ptr |-> obj.handle_, deletes |-> 1]
  ELSE IF obj.type_ = TYPE_FLAC /\ obj.handle_ # nullptr THEN
    [closed |-> TYPE_FLAC, ptr |-> obj.handle_, deletes |-> 0]
  ELSE
    [closed |-> TYPE_UNKNOWN, ptr |-> nullptr, deletes |-> 0]

\* SoundFileHandle::~SoundFileHandle(): the decoder whose teardown routine
\* runs (TYPE_UNKNOWN: none), the pointer it is given, and whether
\* "delete handle_.wav" runs
Destroy(obj) ==
  IF obj.type_ = TYPE_WAV /\ obj.handle_ # nullptr THEN
    [closed |-> TYPE_WAV, ptr |-> obj.handle_, deletes |-> 1]
  ELSE IF obj.type_ = TYPE_FLAC /\ obj.handle_ # nullptr THEN
    [closed |-> TYPE_FLAC, ptr |-> obj.handle_, deletes |-> 0]
  ELSE IF obj.type_ = TYPE_VORBIS /\ obj.handle_ # nullptr THEN
    [closed |-> TYPE_VORBIS, ptr |-> obj.handle_, deletes |-> 0]
  ELSE
    [closed |-> TYPE_UNKNOWN, ptr |-> nullptr, deletes |-> 0]

\* accessors
type(obj) == obj.type_
fileName(obj) == obj.fileName_
info(obj) == obj.info_
error(obj) == obj.lastError_

\* faulty variant: only INVALID_FILE counts as an error
hasError_OnlyInvalid(obj) == obj.lastError_ = INVALID_FILE

hasError(obj) == obj.lastError_ # NO_ERROR

----------------------------------------------------------------------------
(* State *)

VARIABLES
  heap,       \* SoundFileHandle objects by address: unallocated, live, freed
  live,       \* native decoder objects that are open, with their owner
  drwavObjs,  \* number of drwav structs allocated by "new" and not deleted
  openCalls,  \* per decoder: calls of its open routine
  opens,      \* per decoder: successful opens
  closes,     \* per decoder: calls of its teardown routine
  nCalls,     \* soundOpenFile calls so far
  pc,         \* "idle", or "constructed": inside soundOpenFile, after new
  cur,        \* soundOpenFile's local variable handle
  call,       \* arguments and environment of the soundOpenFile in progress
  errOut,     \* the caller's int32_t written through the error parameter
  retHandle,  \* the pointer the last soundOpenFile returned
  ret         \* the last getter call and what it returned

vars ==
  <<heap, live, drwavObjs, openCalls, opens, closes, nCalls, pc, cur, call,
    errOut, retHandle, ret>>

Addrs == 1..MaxOpens

NoObj == InitialObj(<<>>)
Unallocated == [state |-> "unallocated", obj |-> NoObj]
Freed == [state |-> "freed", obj |-> NoObj]

NoCall == [file |-> <<>>, env |-> [is_open |-> FALSE, backendOk |-> FALSE,
                                   native |-> NoNative],
           called |-> TYPE_UNKNOWN]
NoRet == [op |-> "none", file |-> nullptr, val |-> <<>>]

\* value of the error parameter's target before any soundOpenFile call
Unwritten == -1

Init ==
  /\ heap = [a \in Addrs |-> Unallocated]
  /\ live = {}
  /\ drwavObjs = 0
  /\ openCalls = [b \in Backends |-> 0]
  /\ opens = [b \in Backends |-> 0]
  /\ closes = [b \in Backends |-> 0]
  /\ nCalls = 0
  /\ pc = "idle"
  /\ cur = nullptr
  /\ call = NoCall
  /\ errOut = Unwritten
  /\ retHandle = nullptr
  /\ ret = NoRet

\* a pointer value no decoder object has had yet
FreshPtr == openCalls[TYPE_WAV] + openCalls[TYPE_FLAC] + openCalls[TYPE_VORBIS] + 1

\* handles a caller may legally pass to the getters and to soundCloseFile
LiveHandles == {a \in Addrs : heap[a].state = "live"}

----------------------------------------------------------------------------
(* Actions *)

\* soundOpenFile, first statement: auto handle = new SoundFileHandle(fileName)
soundOpenFile_new(file, e) ==
  /\ pc = "idle"
  /\ nCalls < MaxOpens
  /\ LET a == nCalls + 1
         ptr == FreshPtr
         r == Construct(file, e, ptr)
     IN  /\ heap' = [heap EXCEPT ![a] = [state |-> "live", obj |-> r.obj]]
         /\ live' = IF r.opened
                      THEN live \cup {[ptr |-> ptr, backend |-> r.called,
                                       owner |-> a]}
                      ELSE live
         /\ drwavObjs' = drwavObjs + r.news - r.deletes
         /\ openCalls' = IF r.called # TYPE_UNKNOWN
                           THEN [openCalls EXCEPT ![r.called] = @ + 1]
                           ELSE openCalls
         /\ opens' = IF r.opened
                       THEN [opens EXCEPT ![r.called] = @ + 1]
                       ELSE opens
         /\ nCalls' = a
         /\ cur' = a
         /\ call' = [file |-> file, env |-> e, called |-> r.called]
  /\ pc' = "constructed"
  /\ ret' = NoRet
  /\ UNCHANGED <<closes, errOut, retHandle>>

\* "delete file" for a non-null pointer: destructor, then the object is freed
Delete(a) ==
  LET d == Destroy(heap[a].obj)
  IN  /\ heap' = [heap EXCEPT ![a] = Freed]
      /\ live' = IF d.closed # TYPE_UNKNOWN
                   THEN {x \in live : ~(x.ptr = d.ptr /\ x.backend = d.closed)}
                   ELSE live
      /\ closes' = IF d.closed # TYPE_UNKNOWN
                     THEN [closes EXCEPT ![d.closed] = @ + 1]
                     ELSE closes
      /\ drwavObjs' = drwavObjs - d.deletes

\* soundOpenFile, the rest: write *error, delete on error, return
soundOpenFile_return ==
  /\ pc = "constructed"
  /\ errOut' = error(heap[cur].obj)
  /\ IF hasError(heap[cur].obj)
       THEN /\ Delete(cur)
            /\ retHandle' = nullptr
       ELSE /\ retHandle' = cur
            /\ UNCHANGED <<heap, live, closes, drwavObjs>>
  /\ pc' = "idle"
  /\ cur' = nullptr
  /\ call' = NoCall
  /\ ret' = NoRet
  /\ UNCHANGED <<openCalls, opens, nCalls>>

\* soundCloseFile(file): delete file; deleting the null pointer does nothing
soundCloseFile(file) ==
  /\ pc = "idle"
  /\ IF file = nullptr
       THEN UNCHANGED <<heap, live, closes, drwavObjs>>
       ELSE Delete(file)
  /\ ret' = [op |-> "soundCloseFile", file |-> file, val |-> <<>>]
  /\ UNCHANGED <<openCalls, opens, nCalls, pc, cur, call, errOut, retHandle>>

Returns(op, file, val) ==
  /\ pc = "idle"
  /\ ret' = [op |-> op, file |-> file, val |-> val]
  /\ UNCHANGED <<heap, live, drwavObjs, openCalls, opens, closes, nCalls, pc,
                 cur, call, errOut, retHandle>>

soundGetFileType(file) ==
  Returns("soundGetFileType", file, <<type(heap[file].obj)>>)

soundGetFileName(file) ==
  Returns("soundGetFileName", file, <<fileName(heap[file].obj)>>)

soundGetError(file) ==
  Returns("soundGetError", file, <<error(heap[file].obj)>>)

soundGetFrameCount(file) ==
  Returns("soundGetFrameCount", file, <<info(heap[file].obj).totalFrames>>)

soundGetSampleRate(file) ==
  Returns("soundGetSampleRate", file, <<info(heap[file].obj).sampleRate>>)

soundGetChannelCount(file) ==
  Returns("soundGetChannelCount", file, <<info(heap[file].obj).channels>>)

\* faulty variant: rate and channels are written to each other's target
soundGetInfo_Swapped(file) ==
  Returns("soundGetInfo", file,
          <<info(heap[file].obj).totalFrames,
            info(heap[file].obj).channels,
            info(heap[file].obj).sampleRate>>)

\* the value is <<*frames, *rate, *channels>>
soundGetInfo(file) ==
  Returns("soundGetInfo", file,
          <<info(heap[file].obj).totalFrames,
            info(heap[file].obj).sampleRate,
            info(heap[file].obj).channels>>)

Next ==
  \/ \E file \in Paths, e \in Env : soundOpenFile_new(file, e)
  \/ soundOpenFile_return
  \/ \E file \in LiveHandles \cup {nullptr} : soundCloseFile(file)
  \/ \E file \in LiveHandles : soundGetFileType(file)
  \/ \E file \in LiveHandles : soundGetFileName(file)
  \/ \E file \in LiveHandles : soundGetError(file)
  \/ \E file \in LiveHandles : soundGetFrameCount(file)
  \/ \E file \in LiveHandles : soundGetSampleRate(file)
  \/ \E file \in LiveHandles : soundGetChannelCount(file)
  \/ \E file \in LiveHandles : soundGetInfo(file)

Spec == Init /\ [][Next]_vars

TypeOK ==
  /\ pc \in {"idle", "constructed"}
  /\ nCalls \in 0..MaxOpens
  /\ drwavObjs \in 0..MaxOpens
  /\ errOut \in {Unwritten, NO_ERROR, FILE_NOT_FOUND, UNKNOWN_TYPE, INVALID_FILE}
  /\ retHandle \in Addrs \cup {nullptr}
  /\ \A a \in Addrs : heap[a].state \in {"unallocated", "live", "freed"}

----------------------------------------------------------------------------
(* Vocabulary of the properties, stated without the constructor's helpers *)

Dot_wav == <<".", "w", "a", "v">>
Dot_flac == <<".", "f", "l", "a", "c">>
Dot_ogg == <<".", "o", "g", "g">>

HasSuffix(s, suf) ==
  /\ Len(s) >= Len(suf)
  /\ \A i \in 1..Len(suf) : s[Len(s) - Len(suf) + i] = suf[i]

KnownSuffix(file) ==
  HasSuffix(file, Dot_wav) \/ HasSuffix(file, Dot_flac) \/ HasSuffix(file, Dot_ogg)

\* the suffixes of file that start with '.' and hold no other '.':
\* empty when the path has no '.', else the single text from the last '.'
Extensions(file) ==
  { substr(file, k) : k \in { i \in 0..(Len(file) - 1) :
        /\ file[i + 1] = "."
        /\ \A j \in (i + 2)..Len(file) : file[j] # "." } }

ExpectedFormat(file) ==
  IF Dot_wav \in Extensions(file) THEN TYPE_WAV
  ELSE IF Dot_flac \in Extensions(file) THEN TYPE_FLAC
  ELSE IF Dot_ogg \in Extensions(file) THEN TYPE_VORBIS
  ELSE TYPE_UNKNOWN

\* native decoder objects owned by the handle at address a
OwnedBy(a) == {x \in live : x.owner = a}

Getters ==
  { "soundGetFileType", "soundGetFileName", "soundGetError",
    "soundGetFrameCount", "soundGetSampleRate", "soundGetChannelCount",
    "soundGetInfo" }

\* the object soundOpenFile has just constructed
Constructed == heap[cur].obj

----------------------------------------------------------------------------
(* Properties *)

\* C1: the constructor reports the first failing step in the order file
\* access, format detection, backend open, and runs no later step: an
\* inaccessible file gives FILE_NOT_FOUND whatever its extension and no
\* decoder is called; an accessible file without a known extension gives
\* UNKNOWN_TYPE and no decoder is called; a known extension the decoder
\* rejects gives INVALID_FILE; otherwise NO_ERROR.
C1_FirstFailureWins ==
  pc = "constructed" =>
    /\ ~call.env.is_open =>
         /\ Constructed.lastError_ = FILE_NOT_FOUND
         /\ call.called = TYPE_UNKNOWN
    /\ (call.env.is_open /\ ~KnownSuffix(call.file)) =>
         /\ Constructed.lastError_ = UNKNOWN_TYPE
         /\ call.called = TYPE_UNKNOWN
    /\ (call.env.is_open /\ KnownSuffix(call.file) /\ ~call.env.backendOk) =>
         Constructed.lastError_ = INVALID_FILE
    /\ (call.env.is_open /\ KnownSuffix(call.file) /\ call.env.backendOk) =>
         Constructed.lastError_ = NO_ERROR

\* an inaccessible file whose extension is also unrecognized
C1_Witness ==
  /\ pc = "constructed"
  /\ ~call.env.is_open
  /\ call.file = Path_a_txt
  /\ Constructed.lastError_ = FILE_NOT_FOUND
  /\ openCalls = [b \in Backends |-> 0]

\* C2: a constructed, not yet released handle owns a live decoder object
\* if and only if lastError_ is NO_ERROR and type_ is not TYPE_UNKNOWN; it
\* never owns more than one, its pointer designates exactly that object,
\* and after INVALID_FILE it owns none.
C2_ResourceIffValid ==
  \A a \in LiveHandles :
    /\ Cardinality(OwnedBy(a)) <= 1
    /\ (OwnedBy(a) # {}) <=>
         (heap[a].obj.lastError_ = NO_ERROR /\ heap[a].obj.type_ # TYPE_UNKNOWN)
    /\ (heap[a].obj.handle_ # nullptr) <=> (OwnedBy(a) # {})
    /\ \A x \in OwnedBy(a) :
         x.ptr = heap[a].obj.handle_ /\ x.backend = heap[a].obj.type_
    /\ heap[a].obj.lastError_ = INVALID_FILE =>
         (OwnedBy(a) = {} /\ heap[a].obj.handle_ = nullptr)

\* a handle whose WAV decoder rejected the file
C2_Witness ==
  /\ pc = "constructed"
  /\ Constructed.type_ = TYPE_WAV
  /\ Constructed.lastError_ = INVALID_FILE
  /\ Constructed.handle_ = nullptr
  /\ OwnedBy(cur) = {}
  /\ openCalls[TYPE_WAV] >= 1

C3_Balanced ==
  (pc = "idle" /\ LiveHandles = {}) =>
    /\ \A b \in Backends : opens[b] = closes[b]
    /\ live = {}
    /\ drwavObjs = 0

C3_Teardown ==
  \A a \in Addrs :
    (heap[a].state = "live" /\ heap'[a].state = "freed") =>
      /\ \A b \in Backends :
           closes'[b] = closes[b] +
             (IF OwnedBy(a) # {} /\ b = heap[a].obj.type_ THEN 1 ELSE 0)
      /\ live' = live \ OwnedBy(a)

\* C3: once every handle soundOpenFile returned has been closed, each
\* decoder's successful opens equal its teardown calls and no native object
\* or drwav struct is left; releasing a handle calls the teardown of the
\* decoder matching its type exactly once, and none when it owns nothing.
C3_NoLeak == []C3_Balanced /\ [][C3_Teardown]_vars

\* one WAV and one Vorbis file opened and closed, one after the other
C3_Witness ==
  /\ pc = "idle"
  /\ LiveHandles = {}
  /\ opens[TYPE_WAV] = 1 /\ closes[TYPE_WAV] = 1
  /\ opens[TYPE_VORBIS] = 1 /\ closes[TYPE_VORBIS] = 1
  /\ ret.op = "soundCloseFile"

\* C4 as stated: every path without a .wav/.flac/.ogg suffix makes
\* soundOpenFile report UNKNOWN_TYPE.
C4_AnyPathUnknownSuffix ==
  [][(pc = "constructed" /\ pc' = "idle" /\ ~KnownSuffix(call.file)) =>
       errOut' = UNKNOWN_TYPE]_vars

\* C4, amended: every accessible path without a .wav/.flac/.ogg suffix
\* makes soundOpenFile report UNKNOWN_TYPE and return null, whatever the
\* file holds; an inaccessible one reports FILE_NOT_FOUND.
C4_AccessibleUnknownSuffix ==
  [][(pc = "constructed" /\ pc' = "idle" /\ ~KnownSuffix(call.file)) =>
       /\ call.env.is_open => (errOut' = UNKNOWN_TYPE /\ retHandle' = nullptr)
       /\ ~call.env.is_open => errOut' = FILE_NOT_FOUND]_vars

\* an accessible file with an unrecognized extension and content a decoder
\* would accept
C4_Witness ==
  /\ pc = "constructed"
  /\ call.file = Path_a_WAV
  /\ call.env.is_open
  /\ call.env.backendOk
  /\ Constructed.lastError_ = UNKNOWN_TYPE

\* C5: soundOpenFile writes the constructed handle's lastError_ as 0..3,
\* returns a non-null handle if and only if it wrote 0, and on 1, 2 or 3
\* has destroyed the handle and returns null.
C5_NullIffError ==
  [][(pc = "constructed" /\ pc' = "idle") =>
       /\ errOut' = Constructed.lastError_
       /\ errOut' \in {0, 1, 2, 3}
       /\ (retHandle' # nullptr) <=> (errOut' = 0)
       /\ errOut' \in {1, 2, 3} =>
            (heap'[cur].state = "freed" /\ retHandle' = nullptr)
       /\ errOut' = 0 =>
            (retHandle' = cur /\ heap'[cur] = heap[cur])]_vars

\* a missing file: code 1, null returned, the object freed
C5_Witness ==
  /\ pc = "idle"
  /\ nCalls = 1
  /\ errOut = 1
  /\ retHandle = nullptr
  /\ heap[1].state = "freed"

\* C6: after a successful open, sampleRate and channels are the decoder's
\* values; totalFrames is the decoder's frame count for WAV and FLAC and
\* the decoder's sample count divided (integer division) by the channel
\* count for Vorbis.
C6_NormalizedInfo ==
  (pc = "constructed" /\ Constructed.lastError_ = NO_ERROR) =>
    /\ Constructed.info_.sampleRate = call.env.native.sampleRate
    /\ Constructed.info_.channels = call.env.native.channels
    /\ Constructed.type_ \in {TYPE_WAV, TYPE_FLAC} =>
         Constructed.info_.totalFrames = call.env.native.count
    /\ Constructed.type_ = TYPE_VORBIS =>
         /\ Constructed.info_.totalFrames * call.env.native.channels
              <= call.env.native.count
         /\ (Constructed.info_.totalFrames + 1) * call.env.native.channels
              > call.env.native.count

\* song.ogg: 2 channels, 44100 Hz, 88200 samples give 44100 frames
C6_Witness ==
  /\ pc = "constructed"
  /\ call.file = Path_s_ogg
  /\ call.env.native = [count |-> 88200, sampleRate |-> 44100, channels |-> 2]
  /\ Constructed.type_ = TYPE_VORBIS
  /\ Constructed.lastError_ = NO_ERROR
  /\ Constructed.info_ =
       [totalFrames |-> 44100, sampleRate |-> 44100, channels |-> 2]

\* C7: a constructed handle whose lastError_ is not NO_ERROR has
\* totalFrames, sampleRate and channels all zero.
C7_ZeroInfoOnFailure ==
  \A a \in LiveHandles :
    heap[a].obj.lastError_ # NO_ERROR =>
      /\ heap[a].obj.info_.totalFrames = 0
      /\ heap[a].obj.info_.sampleRate = 0
      /\ heap[a].obj.info_.channels = 0

\* a FLAC file the decoder rejected
C7_Witness ==
  /\ pc = "constructed"
  /\ call.file = Path_a_flac
  /\ Constructed.lastError_ = INVALID_FILE
  /\ Constructed.info_.totalFrames = 0
  /\ Constructed.info_.sampleRate = 0
  /\ Constructed.info_.channels = 0

C8_HandleFrozen ==
  \A a \in Addrs :
    (heap[a].state = "live" /\ heap'[a].state = "live") => heap'[a] = heap[a]

C8_GetterStep ==
  ret'.op \in Getters =>
    /\ heap' = heap
    /\ live' = live
    /\ closes' = closes
    /\ ret'.op = "soundGetFileType" =>
         ret'.val = <<heap[ret'.file].obj.type_>>
    /\ ret'.op = "soundGetFileName" =>
         ret'.val = <<heap[ret'.file].obj.fileName_>>
    /\ ret'.op = "soundGetError" =>
         ret'.val = <<heap[ret'.file].obj.lastError_>>
    /\ ret'.op = "soundGetFrameCount" =>
         ret'.val = <<heap[ret'.file].obj.info_.totalFrames>>
    /\ ret'.op = "soundGetSampleRate" =>
         ret'.val = <<heap[ret'.file].obj.info_.sampleRate>>
    /\ ret'.op = "soundGetChannelCount" =>
         ret'.val = <<heap[ret'.file].obj.info_.channels>>
    /\ ret'.op = "soundGetInfo" =>
         ret'.val = <<heap[ret'.file].obj.info_.totalFrames,
                      heap[ret'.file].obj.info_.sampleRate,
                      heap[ret'.file].obj.info_.channels>>
    /\ (ret.op = ret'.op /\ ret.file = ret'.file) => ret'.val = ret.val

\* C8: from the constructor's return to the close, the handle's members
\* never change; every getter leaves all handles and native objects as they
\* are and returns the member it names, soundGetInfo the same three values
\* as the three single getters, so repeated queries return the same values.
C8_QueriesArePure == [][C8_HandleFrozen /\ C8_GetterStep]_vars

\* soundGetInfo answered on the second of two open handles
C8_Witness ==
  /\ ret.op = "soundGetInfo"
  /\ ret.file = 2
  /\ LiveHandles = {1, 2}
  /\ ret.val = <<2, 44100, 2>>

C10_ExtensionMapping ==
  (pc = "constructed" /\ call.env.is_open) =>
    /\ Constructed.type_ = ExpectedFormat(call.file)
    /\ call.file \in {Path_a_WAV, Path_a, Path_wav, Path_a_dot} =>
         Constructed.type_ = TYPE_UNKNOWN
    /\ Constructed.lastError_ = NO_ERROR =>
         (type(Constructed) = ExpectedFormat(call.file)
            /\ type(Constructed) # TYPE_UNKNOWN)

\* a path with two dots: only the text after the last one counts
C10_Witness ==
  /\ pc = "constructed"
  /\ call.env.is_open
  /\ call.file = Path_a_b_ogg
  /\ Constructed.type_ = TYPE_VORBIS
  /\ Constructed.lastError_ = NO_ERROR
====
